---- MODULE Spec2Model ----
(***************************************************************************)
(* A model of the orchid logging library (github.com/epiphyte/orchid).     *)
(*                                                                         *)
(* The model follows the revision of orchid.go that validates its inputs   *)
(* (src/unnamed/part_004) together with the Configuration singleton        *)
(* (src/unnamed/part_006, lines 52-191).  Goroutines are the threads of    *)
(* the model; every call is split at each access to shared state: a mutex  *)
(* acquisition, a Configuration accessor, a write to a file handle.  A     *)
(* mutex release is taken together with the access that precedes it.       *)
(*                                                                         *)
(* Strings are sequences of one-character strings, so that trimming,       *)
(* padding and length checks are computed and not assumed.  The time stamp *)
(* of a message is left out: no operation reads it back.                   *)
(***************************************************************************)
EXTENDS Integers, Sequences, FiniteSets, TLC

\* ------------------------------------------------------------------ bounds

\* Number of calls the goroutines make in total.
MaxCalls == 3

\* The goroutines that call into the library; they are numbered in the order
\* of their first call.
Threads == { 1, 2 }
None == 0

\* ----------------------------------------------------------------- strings

SP == " "
TAB == "\t"
NUL == "\\x00"
WhiteSpace == {SP, TAB}

Rep(c, n) == [i \in 1..n |-> c]

RECURSIVE TrimLeft(_)
TrimLeft(s) ==
    IF s # <<>> /\ Head(s) \in WhiteSpace THEN TrimLeft(Tail(s)) ELSE s

RECURSIVE TrimRight(_)
TrimRight(s) ==
    IF s # <<>> /\ s[Len(s)] \in WhiteSpace
    THEN TrimRight(SubSeq(s, 1, Len(s) - 1))
    ELSE s

\* strings.TrimSpace
TrimSpace(s) == TrimRight(TrimLeft(s))

\* strings.Contains(s, c) for a one-character c
Contains(s, c) == \E i \in 1..Len(s) : s[i] = c

\* fmt's %-Ns: left-justified, padded with spaces to width n, never cut
PadRight(s, n) == IF Len(s) >= n THEN s ELSE s \o Rep(SP, n - Len(s))

\* An operand of a variadic log call: a string or another value (an int).
StrArg(s) == [isString |-> TRUE, s |-> s]
IntArg(s) == [isString |-> FALSE, s |-> s]

\* fmt.Sprint: operands are concatenated; a space is added between two
\* operands when neither is a string.
RECURSIVE Sprint(_)
Sprint(a) ==
    IF a = <<>> THEN <<>>
    ELSE IF Len(a) = 1 THEN a[1].s
    ELSE a[1].s
         \o (IF a[1].isString \/ a[2].isString THEN <<>> ELSE <<SP>>)
         \o Sprint(Tail(a))

\* --------------------------------------------------------------- constants

FormatTXT == 0
FormatJSON == 1

MaxModuleLen == 50
MaxPathLen == 260
\* longest file name the file system accepts (NAME_MAX)
NameMax == 255

COLOR_RESET == "\\033[0m"
COLOR_INFO == "\\033[48;5;33m"
COLOR_OK == "\\033[48;5;36m"
COLOR_WARN == "\\033[48;5;3m"
COLOR_ERROR == "\\033[48;5;1m"
COLOR_FATAL == "\\033[48;5;1m"
COLOR_DEBUG == "\\033[48;5;5m"

INFO == <<"I", "N", "F", "O">>
OK == <<"O", "K">>
WARN == <<"W", "A", "R", "N">>
ERROR == <<"E", "R", "R", "O", "R">>
FATAL == <<"F", "A", "T", "A", "L">>
DEBUG == <<"D", "E", "B", "U", "G">>
Severities == {INFO, OK, WARN, ERROR, FATAL, DEBUG}

\* error values
Nil == "nil"
ErrEmptyModule == "module name cannot be empty or whitespace-only"
ErrModuleTooLong == "module name too long (max 50 characters)"
ErrInvalidFormat == "invalid log format"
ErrPathWhitespace == "file path cannot have leading or trailing whitespace"
ErrPathNull == "file path cannot contain null bytes"
ErrPathTooLong == "file path too long (max 260 characters)"
ErrOpen == "failed to open log file"
ErrSetLogFile == "failed to set log file: failed to open log file"
ErrCloseFailed == "failed to close log file"
ErrNoHandle == "log file configured but file handle is not available"
ErrWriteText == "failed to write text log to file"
ErrWriteJSON == "failed to write JSON log to file"
ErrUnsupported == "unsupported log format"

\* ------------------------------------------------------------------ inputs

PathA == <<"a">>
PathB == <<"b">>
PathNoDir == <<"/", "x">>
PathLead == <<SP, "a">>
PathTrail == <<"a", SP>>
PathNull == <<"a", NUL>>
PathMax == Rep("a", MaxPathLen)
PathLong == Rep("a", MaxPathLen + 1)

Strings == << StrArg(<<"x">>), StrArg(<<"y">>) >>
Numbers == << IntArg(<<"1">>), IntArg(<<"2">>) >>

\* The arguments the callers pass.  A sequential caller tries every kind of
\* argument: module names that are empty, blank, padded, of 50 and of 52
\* characters; SetLogFile with every path that is accepted in both formats,
\* with each path that is rejected, and with formats out of range; every
\* severity, and operands that are strings and that are not.  Concurrent
\* callers pass arguments that are accepted.
AllInputs ==
    [ names |-> { <<>>, <<SP, TAB>>, <<TAB, "m", SP>>, <<"n">>,
                  Rep("m", MaxModuleLen), <<SP>> \o Rep("m", MaxModuleLen + 1) },
      setLogFile |->
          [ path : { <<>>, PathA, PathB, PathMax },
            format : { FormatTXT, FormatJSON } ]
          \cup [ path : { PathLead, PathTrail, PathNull, PathLong },
                 format : { FormatTXT } ]
          \cup [ path : { <<>>, PathA }, format : { -1, 99 } ]
          \cup [ path : { PathLead }, format : { 99 } ],
      filePaths |-> { <<>>, PathB, PathNoDir, PathLead },
      formats |-> { FormatTXT, FormatJSON, 99 },
      logs |-> [ sev : { INFO }, args : { Strings, Numbers } ]
               \cup [ sev : Severities, args : { Numbers } ],
      history |-> TRUE, count |-> FALSE ]

FewInputs ==
    [ names |-> { <<TAB, "m", SP>>, <<"n">> },
      setLogFile |-> [ path : { <<>>, PathA, PathB },
                       format : { FormatTXT, FormatJSON } ],
      filePaths |-> { PathB, PathNoDir },
      formats |-> { FormatJSON },
      logs |-> [ sev : { INFO, FATAL }, args : { Numbers } ],
      history |-> FALSE, count |-> FALSE ]

\* concurrent callers that log, change the log file and count the log calls
\* they make
LogInputs ==
    [ names |-> { <<"n">> },
      setLogFile |-> [ path : { PathB }, format : { FormatTXT, FormatJSON } ],
      filePaths |-> { PathNoDir },
      formats |-> { FormatJSON },
      logs |-> [ sev : { INFO, FATAL }, args : { Numbers } ],
      history |-> TRUE, count |-> TRUE ]

\* the files the file system can hold: os.OpenFile fails for a name longer
\* than NAME_MAX, for a name with a NUL byte, and in a directory that does
\* not exist (no directory under the root exists here)
CanOpen(path) ==
    /\ path # <<>>
    /\ Len(path) <= NameMax
    /\ ~Contains(path, NUL)
    /\ Head(path) # "/"

FileNames ==
    { p \in { c.path : c \in AllInputs.setLogFile } \cup AllInputs.filePaths :
        CanOpen(p) }

\* the default logger of the package and the loggers the callers declare
DefaultLogger == "defaultLogger"
InstanceLoggers == { "logger1" }
Loggers == { DefaultLogger } \cup InstanceLoggers

\* ------------------------------------------------------------------- state

VARIABLES
    configOnce,      \* sync.Once of GetConfiguration has run
    configInstance,  \* the Configuration singleton
    cmu,             \* Configuration.mu: the thread holding it for writing
    module,          \* Logger.module, per logger
    lmu,             \* Logger.mu, per logger: the thread holding it
    defaultMu,       \* defaultMu: the thread holding it
    handles,         \* the *os.File objects that are open: identity and path
    files,           \* the lines of each file of the file system
    exited,          \* log.Fatal has ended the process
    calls,           \* number of calls made so far
    frame            \* per thread: the call it is in, its locals, its result

vars ==
    << configOnce, configInstance, cmu, module, lmu, defaultMu, handles,
       files, exited, calls, frame >>

\* a nil *os.File
NoFile == [ id |-> 0, path |-> <<>> ]

\* A Configuration as GetConfiguration constructs it.
NewConfiguration ==
    [ defaultFile |-> <<>>, defaultFormat |-> FormatTXT,
      enableColors |-> TRUE, logFile |-> NoFile ]

\* GetConfiguration without configOnce: every call constructs
GetConfiguration_NoOnce == NewConfiguration

\* GetConfiguration: the instance, constructed on first use
GetConfiguration == IF configOnce THEN configInstance ELSE NewConfiguration

NoMsg == [ Severity |-> <<>>, Text |-> <<>>, Module |-> <<>> ]

\* the call a thread made before the one it is in and its result, with the
\* arguments of a call that succeeded, for a caller that keeps them
NoCall == [ op |-> "none", path |-> <<>>, format |-> 0, err |-> Nil ]

Idle ==
    [ pc |-> "idle", prev |-> NoCall, logs |-> 0,
      op |-> "none", l |-> "none", global |-> FALSE,
      name |-> <<>>, sev |-> <<>>, args |-> <<>>, path |-> <<>>,
      format |-> 0, enable |-> FALSE,
      msg |-> NoMsg, consoleMessage |-> <<>>, logFile |-> NoFile,
      err |-> Nil,
      written |-> <<>>, console |-> <<>>, stderr |-> <<>> ]

Init ==
    /\ configOnce = FALSE
    /\ configInstance =
           [ defaultFile |-> <<>>, defaultFormat |-> 0,
             enableColors |-> FALSE, logFile |-> NoFile ]
    /\ cmu = None
    /\ module = [ l \in Loggers |-> <<>> ]
    /\ lmu = [ l \in Loggers |-> None ]
    /\ defaultMu = None
    /\ handles = {}
    /\ files = [ p \in FileNames |-> <<>> ]
    /\ exited = FALSE
    /\ calls = 0
    /\ frame = [ t \in Threads |-> Idle ]

\* a thread may start a call
CanCall(t) ==
    /\ ~exited
    /\ frame[t].pc \in {"idle", "ret"}
    /\ calls < MaxCalls
    /\ \A u \in Threads : u < t => frame[u].pc # "idle"
\* a thread is at step pc of its call
At(t, pc) == ~exited /\ frame[t].pc = pc

\* the thread's call returns err; its locks are released by the caller
Returned(f, err) == [ f EXCEPT !.pc = "ret", !.err = err ]

\* the frame of a new call of thread t
NewCall(t, in) ==
    [ Idle EXCEPT !.prev =
        IF in.history /\ frame[t].pc = "ret"
        THEN IF frame[t].err = Nil
             THEN [ op |-> frame[t].op, path |-> frame[t].path,
                    format |-> frame[t].format, err |-> Nil ]
             ELSE [ NoCall EXCEPT !.op = frame[t].op, !.err = frame[t].err ]
        ELSE NoCall,
      !.logs = IF in.count THEN frame[t].logs ELSE 0 ]

\* the number of log calls of a thread, with the call it starts, for a
\* caller that counts them
CountLog(in, n) == IF in.count THEN n + 1 ELSE 0

\* -------------------------------------------------------------- Logger.Init

\* InitError with the length check off by one: a name of 50 characters is
\* rejected
InitError_TooLongAt50(moduleName) ==
    IF TrimSpace(moduleName) = <<>> THEN ErrEmptyModule
    ELSE IF Len(TrimSpace(moduleName)) >= MaxModuleLen THEN ErrModuleTooLong
    ELSE Nil
\* the error Logger.Init returns for a module name, before it takes the lock
InitError(moduleName) ==
    IF TrimSpace(moduleName) = <<>> THEN ErrEmptyModule
    ELSE IF Len(TrimSpace(moduleName)) > MaxModuleLen THEN ErrModuleTooLong
    ELSE Nil

\* Logger_Init that stores the trimmed name before it validates it
Logger_Init_StoreFirst(t, in) ==
    /\ CanCall(t)
    /\ \E l \in InstanceLoggers, m \in in.names :
           LET f == [ NewCall(t, in) EXCEPT !.op = "Logger.Init", !.l = l, !.name = m ]
           IN IF InitError(m) # Nil
              THEN /\ lmu[l] = None
                   /\ module' = [ module EXCEPT ![l] = TrimSpace(m) ]
                   /\ frame' = [ frame EXCEPT ![t] = Returned(f, InitError(m)) ]
                   /\ UNCHANGED lmu
              ELSE /\ lmu[l] = None
                   /\ lmu' = [ lmu EXCEPT ![l] = t ]
                   /\ frame' = [ frame EXCEPT ![t] = [ f EXCEPT !.pc = "Init_store" ] ]
                   /\ UNCHANGED module
    /\ calls' = calls + 1
    /\ UNCHANGED << configOnce, configInstance, cmu, defaultMu,
                    handles, files, exited >>
\* Logger_Init that does not wait for l.mu
Logger_Init_NoLock(t, in) ==
    /\ CanCall(t)
    /\ \E l \in InstanceLoggers, m \in in.names :
           LET f == [ NewCall(t, in) EXCEPT !.op = "Logger.Init", !.l = l, !.name = m ]
           IN IF InitError(m) # Nil
              THEN /\ frame' = [ frame EXCEPT ![t] = Returned(f, InitError(m)) ]
                   /\ UNCHANGED lmu
              ELSE /\ lmu' = [ lmu EXCEPT ![l] = t ]
                   /\ frame' = [ frame EXCEPT ![t] = [ f EXCEPT !.pc = "Init_store" ] ]
    /\ calls' = calls + 1
    /\ UNCHANGED << configOnce, configInstance, cmu, module, defaultMu,
                    handles, files, exited >>
\* logger.Init(moduleName): the name is validated, then l.mu.Lock()
Logger_Init(t, in) ==
    /\ CanCall(t)
    /\ \E l \in InstanceLoggers, m \in in.names :
           LET f == [ NewCall(t, in) EXCEPT !.op = "Logger.Init", !.l = l, !.name = m ]
           IN IF InitError(m) # Nil
              THEN /\ frame' = [ frame EXCEPT ![t] = Returned(f, InitError(m)) ]
                   /\ UNCHANGED lmu
              ELSE /\ lmu[l] = None
                   /\ lmu' = [ lmu EXCEPT ![l] = t ]
                   /\ frame' = [ frame EXCEPT ![t] = [ f EXCEPT !.pc = "Init_store" ] ]
    /\ calls' = calls + 1
    /\ UNCHANGED << configOnce, configInstance, cmu, module, defaultMu,
                    handles, files, exited >>

\* Init(moduleName) of the package: defaultMu.Lock(), then defaultLogger.Init
\* validates the name; an invalid name returns at once
Init_default(t, in) ==
    /\ CanCall(t)
    /\ defaultMu = None
    /\ \E m \in in.names :
           LET f == [ NewCall(t, in) EXCEPT !.op = "Init", !.l = DefaultLogger,
                                  !.global = TRUE, !.name = m ]
           IN IF InitError(m) # Nil
              THEN /\ frame' = [ frame EXCEPT ![t] = Returned(f, InitError(m)) ]
                   /\ UNCHANGED defaultMu
              ELSE /\ frame' = [ frame EXCEPT ![t] = [ f EXCEPT !.pc = "Init_lock" ] ]
                   /\ defaultMu' = t
    /\ calls' = calls + 1
    /\ UNCHANGED << configOnce, configInstance, cmu, module, lmu, handles,
                    files, exited >>

\* l.mu.Lock() of defaultLogger.Init, with defaultMu held
Logger_Init_lock(t) ==
    /\ At(t, "Init_lock")
    /\ lmu[frame[t].l] = None
    /\ lmu' = [ lmu EXCEPT ![frame[t].l] = t ]
    /\ frame' = [ frame EXCEPT ![t].pc = "Init_store" ]
    /\ UNCHANGED << configOnce, configInstance, cmu, module, defaultMu,
                    handles, files, exited, calls >>

\* Logger_Init_store with one module shared by all Loggers
Logger_Init_store_Shared(t) ==
    /\ At(t, "Init_store")
    /\ module' = [ l \in Loggers |-> TrimSpace(frame[t].name) ]
    /\ lmu' = [ lmu EXCEPT ![frame[t].l] = None ]
    /\ defaultMu' = IF frame[t].global THEN None ELSE defaultMu
    /\ frame' = [ frame EXCEPT ![t] = Returned(frame[t], Nil) ]
    /\ UNCHANGED << configOnce, configInstance, cmu, handles, files, exited,
                    calls >>
\* l.module = trimmed; the deferred unlocks; return nil
Logger_Init_store(t) ==
    /\ At(t, "Init_store")
    /\ module' = [ module EXCEPT ![frame[t].l] = TrimSpace(frame[t].name) ]
    /\ lmu' = [ lmu EXCEPT ![frame[t].l] = None ]
    /\ defaultMu' = IF frame[t].global THEN None ELSE defaultMu
    /\ frame' = [ frame EXCEPT ![t] = Returned(frame[t], Nil) ]
    /\ UNCHANGED << configOnce, configInstance, cmu, handles, files, exited,
                    calls >>

\* ------------------------------------------------------------ file handles

\* the *os.File objects some variable still refers to
Referenced ==
    handles \cup { GetConfiguration.logFile }
            \cup { frame[t].logFile : t \in Threads }

\* the identity of the next *os.File object
FreshId ==
    CHOOSE i \in 1..(Cardinality(Threads) + 2) :
        /\ \A h \in Referenced : h.id # i
        /\ \A j \in 1..(i - 1) : \E h \in Referenced : h.id = j

\* os.OpenFile(path, O_APPEND|O_CREATE|O_WRONLY): the new handle, nil when
\* the file cannot be opened
OpenFile(path) ==
    IF CanOpen(path) THEN [ id |-> FreshId, path |-> path ] ELSE NoFile

\* (*os.File).Close on handle h: the open handles afterwards
CloseHandle(h) == handles \ { h }

\* (*os.File).Close and Write fail on a handle that is closed already
IsClosed(h) == h \notin handles

\* ----------------------------------------------------------- Configuration

\* the Configuration is set to c (GetConfiguration has run by then)
SetConfig(c) == configInstance' = c /\ configOnce' = TRUE

\* Configuration.SetDefaultFile(path) is called on GetConfiguration()
SetDefaultFile(t, in) ==
    /\ CanCall(t)
    /\ \E path \in in.filePaths :
           frame' = [ frame EXCEPT ![t] =
               [ NewCall(t, in) EXCEPT !.op = "SetDefaultFile", !.path = path,
                             !.pc = "SetDefaultFile_lock" ] ]
    /\ calls' = calls + 1
    /\ UNCHANGED << configOnce, configInstance, cmu, module, lmu, defaultMu,
                    handles, files, exited >>

\* what the caller of SetDefaultFile does with its result e: SetLogFile goes
\* on to SetDefaultFormat or returns the wrapped error and unlocks defaultMu
AfterSetDefaultFile(t, e) ==
    IF frame[t].op = "SetLogFile"
    THEN IF e = Nil
         THEN /\ frame' = [ frame EXCEPT ![t].pc = "SetLogFile_format" ]
              /\ UNCHANGED defaultMu
         ELSE /\ frame' = [ frame EXCEPT ![t] = Returned(frame[t], ErrSetLogFile) ]
              /\ defaultMu' = None
    ELSE /\ frame' = [ frame EXCEPT ![t] = Returned(frame[t], e) ]
         /\ UNCHANGED defaultMu

\* SetDefaultFile_lock that keeps a file that is open and returns
SetDefaultFile_lock_KeepOpen(t) ==
    /\ At(t, "SetDefaultFile_lock")
    /\ cmu = None
    /\ SetConfig(GetConfiguration)
    /\ IF GetConfiguration.logFile # NoFile
       THEN /\ AfterSetDefaultFile(t, Nil)
            /\ UNCHANGED cmu
       ELSE /\ cmu' = t
            /\ frame' = [ frame EXCEPT ![t].pc = "SetDefaultFile_path" ]
            /\ UNCHANGED defaultMu
    /\ UNCHANGED << module, lmu, handles, files, exited, calls >>
\* c.mu.Lock() of SetDefaultFile
SetDefaultFile_lock(t) ==
    /\ At(t, "SetDefaultFile_lock")
    /\ cmu = None
    /\ cmu' = t
    /\ SetConfig(GetConfiguration)
    /\ frame' = [ frame EXCEPT ![t].pc =
           IF GetConfiguration.logFile # NoFile THEN "SetDefaultFile_close"
           ELSE "SetDefaultFile_path" ]
    /\ UNCHANGED << module, lmu, defaultMu, handles, files, exited, calls >>

\* SetDefaultFile_close without the Close: the handle is dropped while open
SetDefaultFile_close_Leak(t) ==
    /\ At(t, "SetDefaultFile_close")
    /\ configInstance' = [ configInstance EXCEPT !.logFile = NoFile ]
    /\ frame' = [ frame EXCEPT ![t].pc = "SetDefaultFile_path" ]
    /\ UNCHANGED << configOnce, cmu, module, lmu, defaultMu, handles, files,
                    exited, calls >>
\* c.logFile.Close(); c.logFile = nil
SetDefaultFile_close(t) ==
    /\ At(t, "SetDefaultFile_close")
    /\ handles' = CloseHandle(configInstance.logFile)
    /\ configInstance' = [ configInstance EXCEPT !.logFile = NoFile ]
    /\ frame' = [ frame EXCEPT ![t].pc = "SetDefaultFile_path" ]
    /\ UNCHANGED << configOnce, cmu, module, lmu, defaultMu, files, exited,
                    calls >>

\* c.defaultFile = filePath; an empty path returns nil
SetDefaultFile_path(t) ==
    /\ At(t, "SetDefaultFile_path")
    /\ configInstance' = [ configInstance EXCEPT !.defaultFile = frame[t].path ]
    /\ IF frame[t].path = <<>>
       THEN /\ cmu' = None
            /\ AfterSetDefaultFile(t, Nil)
       ELSE /\ frame' = [ frame EXCEPT ![t].pc = "SetDefaultFile_open" ]
            /\ UNCHANGED << cmu, defaultMu >>
    /\ UNCHANGED << configOnce, module, lmu, handles, files, exited, calls >>

\* c.logFile, err = os.OpenFile(filePath, ...); the deferred c.mu.Unlock()
SetDefaultFile_open(t) ==
    /\ At(t, "SetDefaultFile_open")
    /\ LET f == OpenFile(frame[t].path)
       IN /\ handles' = handles \cup ({ f } \ { NoFile })
          /\ configInstance' = [ configInstance EXCEPT !.logFile = f ]
          /\ AfterSetDefaultFile(t, IF f = NoFile THEN ErrOpen ELSE Nil)
    /\ cmu' = None
    /\ UNCHANGED << configOnce, module, lmu, files, exited, calls >>

\* Configuration.SetDefaultFormat(format)
SetDefaultFormat(t, in) ==
    /\ CanCall(t)
    /\ cmu = None
    /\ \E format \in in.formats :
           /\ SetConfig([ GetConfiguration EXCEPT !.defaultFormat = format ])
           /\ frame' = [ frame EXCEPT ![t] =
                  Returned([ NewCall(t, in) EXCEPT !.op = "SetDefaultFormat",
                                         !.format = format ], Nil) ]
    /\ calls' = calls + 1
    /\ UNCHANGED << cmu, module, lmu, defaultMu, handles, files, exited >>

\* Configuration.SetEnableColors(enable)
SetEnableColors(t, in) ==
    /\ CanCall(t)
    /\ cmu = None
    /\ \E enable \in BOOLEAN :
           /\ SetConfig([ GetConfiguration EXCEPT !.enableColors = enable ])
           /\ frame' = [ frame EXCEPT ![t] =
                  Returned([ NewCall(t, in) EXCEPT !.op = "SetEnableColors",
                                         !.enable = enable ], Nil) ]
    /\ calls' = calls + 1
    /\ UNCHANGED << cmu, module, lmu, defaultMu, handles, files, exited >>

\* Close() of the package, Configuration.Close(): c.mu.Lock()
Close(t, in) ==
    /\ CanCall(t)
    /\ cmu = None
    /\ cmu' = t
    /\ SetConfig(GetConfiguration)
    /\ frame' = [ frame EXCEPT ![t] =
           [ NewCall(t, in) EXCEPT !.op = "Close", !.pc = "Close_body" ] ]
    /\ calls' = calls + 1
    /\ UNCHANGED << module, lmu, defaultMu, handles, files, exited >>

\* Close_body that fails when there is no handle to close
Close_body_ErrorWhenClosed(t) ==
    /\ At(t, "Close_body")
    /\ LET h == configInstance.logFile
       IN IF h # NoFile
          THEN /\ handles' = CloseHandle(h)
               /\ configInstance' = [ configInstance EXCEPT
                      !.logFile = NoFile, !.defaultFile = <<>> ]
               /\ frame' = [ frame EXCEPT ![t] = Returned(frame[t],
                      IF IsClosed(h) THEN ErrCloseFailed ELSE Nil) ]
          ELSE /\ frame' = [ frame EXCEPT ![t] = Returned(frame[t], ErrCloseFailed) ]
               /\ UNCHANGED << handles, configInstance >>
    /\ cmu' = None
    /\ UNCHANGED << configOnce, module, lmu, defaultMu, files, exited, calls >>
\* Close_body that returns the error of the close before it clears the
\* handle and the path
Close_body_KeepOnError(t) ==
    /\ At(t, "Close_body")
    /\ LET h == configInstance.logFile
       IN IF h # NoFile
          THEN /\ handles' = CloseHandle(h)
               /\ configInstance' =
                      IF IsClosed(h) THEN configInstance
                      ELSE [ configInstance EXCEPT
                               !.logFile = NoFile, !.defaultFile = <<>> ]
               /\ frame' = [ frame EXCEPT ![t] = Returned(frame[t],
                      IF IsClosed(h) THEN ErrCloseFailed ELSE Nil) ]
          ELSE /\ frame' = [ frame EXCEPT ![t] = Returned(frame[t], Nil) ]
               /\ UNCHANGED << handles, configInstance >>
    /\ cmu' = None
    /\ UNCHANGED << configOnce, module, lmu, defaultMu, files, exited, calls >>
\* Close_body that keeps the default file path
Close_body_KeepPath(t) ==
    /\ At(t, "Close_body")
    /\ LET h == configInstance.logFile
       IN IF h # NoFile
          THEN /\ handles' = CloseHandle(h)
               /\ configInstance' = [ configInstance EXCEPT !.logFile = NoFile ]
               /\ frame' = [ frame EXCEPT ![t] = Returned(frame[t],
                      IF IsClosed(h) THEN ErrCloseFailed ELSE Nil) ]
          ELSE /\ frame' = [ frame EXCEPT ![t] = Returned(frame[t], Nil) ]
               /\ UNCHANGED << handles, configInstance >>
    /\ cmu' = None
    /\ UNCHANGED << configOnce, module, lmu, defaultMu, files, exited, calls >>
\* the body of Configuration.Close and the deferred c.mu.Unlock()
Close_body(t) ==
    /\ At(t, "Close_body")
    /\ LET h == configInstance.logFile
       IN IF h # NoFile
          THEN /\ handles' = CloseHandle(h)
               /\ configInstance' = [ configInstance EXCEPT
                      !.logFile = NoFile, !.defaultFile = <<>> ]
               /\ frame' = [ frame EXCEPT ![t] = Returned(frame[t],
                      IF IsClosed(h) THEN ErrCloseFailed ELSE Nil) ]
          ELSE /\ frame' = [ frame EXCEPT ![t] = Returned(frame[t], Nil) ]
               /\ UNCHANGED << handles, configInstance >>
    /\ cmu' = None
    /\ UNCHANGED << configOnce, module, lmu, defaultMu, files, exited, calls >>

\* Configuration.Reset(): c.mu.Lock()
Reset(t, in) ==
    /\ CanCall(t)
    /\ cmu = None
    /\ cmu' = t
    /\ SetConfig(GetConfiguration)
    /\ frame' = [ frame EXCEPT ![t] =
           [ NewCall(t, in) EXCEPT !.op = "Reset", !.pc = "Reset_body" ] ]
    /\ calls' = calls + 1
    /\ UNCHANGED << module, lmu, defaultMu, handles, files, exited >>

\* Reset_body that restores the defaults only when a handle is stored
Reset_body_OnlyWhenOpen(t) ==
    /\ At(t, "Reset_body")
    /\ handles' = IF configInstance.logFile # NoFile
                  THEN CloseHandle(configInstance.logFile)
                  ELSE handles
    /\ configInstance' = IF configInstance.logFile # NoFile
                         THEN NewConfiguration
                         ELSE configInstance
    /\ cmu' = None
    /\ frame' = [ frame EXCEPT ![t] = Returned(frame[t], Nil) ]
    /\ UNCHANGED << configOnce, module, lmu, defaultMu, files, exited, calls >>
\* the body of Configuration.Reset and the deferred c.mu.Unlock()
Reset_body(t) ==
    /\ At(t, "Reset_body")
    /\ handles' = IF configInstance.logFile # NoFile
                  THEN CloseHandle(configInstance.logFile)
                  ELSE handles
    /\ configInstance' = NewConfiguration
    /\ cmu' = None
    /\ frame' = [ frame EXCEPT ![t] = Returned(frame[t], Nil) ]
    /\ UNCHANGED << configOnce, module, lmu, defaultMu, files, exited, calls >>

\* A caller inside the package closes the handle it got from getLogFile, as
\* TestFileWriteErrorRecovery does: the Configuration keeps the closed handle.
CloseUnderneath(t, in) ==
    /\ CanCall(t)
    /\ cmu = None
    /\ GetConfiguration.logFile # NoFile
    /\ handles' = CloseHandle(GetConfiguration.logFile)
    /\ frame' = [ frame EXCEPT ![t] =
           Returned([ NewCall(t, in) EXCEPT !.op = "CloseUnderneath" ], Nil) ]
    /\ calls' = calls + 1
    /\ UNCHANGED << configOnce, configInstance, cmu, module, lmu, defaultMu,
                    files, exited >>

\* -------------------------------------------------------------- SetLogFile

\* SetLogFileError without the check of the format
SetLogFileError_AnyFormat(path, format) ==
    IF path = <<>> THEN Nil
    ELSE IF TrimSpace(path) # path THEN ErrPathWhitespace
    ELSE IF Contains(path, NUL) THEN ErrPathNull
    ELSE IF Len(path) > MaxPathLen THEN ErrPathTooLong
    ELSE Nil
\* SetLogFileError with the length check off by one: a path of 261
\* characters is accepted
SetLogFileError_LongerPath(path, format) ==
    IF format < FormatTXT \/ format > FormatJSON THEN ErrInvalidFormat
    ELSE IF path = <<>> THEN Nil
    ELSE IF TrimSpace(path) # path THEN ErrPathWhitespace
    ELSE IF Contains(path, NUL) THEN ErrPathNull
    ELSE IF Len(path) > MaxPathLen + 1 THEN ErrPathTooLong
    ELSE Nil
\* the error SetLogFile returns for its arguments before it takes any lock
SetLogFileError(path, format) ==
    IF format < FormatTXT \/ format > FormatJSON THEN ErrInvalidFormat
    ELSE IF path = <<>> THEN Nil
    ELSE IF TrimSpace(path) # path THEN ErrPathWhitespace
    ELSE IF Contains(path, NUL) THEN ErrPathNull
    ELSE IF Len(path) > MaxPathLen THEN ErrPathTooLong
    ELSE Nil

\* SetLogFile that sets the format before it sets the file
SetLogFile_FormatFirst(t, in) ==
    /\ CanCall(t)
    /\ \E c \in in.setLogFile :
           LET path == c.path
               format == c.format
               f == [ NewCall(t, in) EXCEPT !.op = "SetLogFile", !.global = TRUE,
                                  !.path = path, !.format = format ]
           IN IF SetLogFileError(path, format) # Nil
              THEN /\ frame' = [ frame EXCEPT ![t] =
                          Returned(f, SetLogFileError(path, format)) ]
                   /\ UNCHANGED << defaultMu, configOnce, configInstance >>
              ELSE /\ defaultMu = None
                   /\ cmu = None
                   /\ defaultMu' = t
                   /\ SetConfig([ GetConfiguration EXCEPT
                                    !.defaultFormat = format ])
                   /\ frame' = [ frame EXCEPT ![t] =
                          [ f EXCEPT !.pc = "SetDefaultFile_lock" ] ]
    /\ calls' = calls + 1
    /\ UNCHANGED << cmu, module, lmu, handles, files, exited >>
\* SetLogFile that does not wait for defaultMu
SetLogFile_NoFacadeLock(t, in) ==
    /\ CanCall(t)
    /\ \E c \in in.setLogFile :
           LET path == c.path
               format == c.format
               f == [ NewCall(t, in) EXCEPT !.op = "SetLogFile", !.global = TRUE,
                                  !.path = path, !.format = format ]
           IN IF SetLogFileError(path, format) # Nil
              THEN /\ frame' = [ frame EXCEPT ![t] =
                          Returned(f, SetLogFileError(path, format)) ]
                   /\ UNCHANGED defaultMu
              ELSE /\ defaultMu' = t
                   /\ frame' = [ frame EXCEPT ![t] =
                          [ f EXCEPT !.pc = "SetDefaultFile_lock" ] ]
    /\ calls' = calls + 1
    /\ UNCHANGED << configOnce, configInstance, cmu, module, lmu, handles,
                    files, exited >>
\* SetLogFile(filePath, format): the arguments are validated, then
\* defaultMu.Lock()
SetLogFile(t, in) ==
    /\ CanCall(t)
    /\ \E c \in in.setLogFile :
           LET path == c.path
               format == c.format
               f == [ NewCall(t, in) EXCEPT !.op = "SetLogFile", !.global = TRUE,
                                  !.path = path, !.format = format ]
           IN IF SetLogFileError(path, format) # Nil
              THEN /\ frame' = [ frame EXCEPT ![t] =
                          Returned(f, SetLogFileError(path, format)) ]
                   /\ UNCHANGED defaultMu
              ELSE /\ defaultMu = None
                   /\ defaultMu' = t
                   /\ frame' = [ frame EXCEPT ![t] =
                          [ f EXCEPT !.pc = "SetDefaultFile_lock" ] ]
    /\ calls' = calls + 1
    /\ UNCHANGED << configOnce, configInstance, cmu, module, lmu, handles,
                    files, exited >>

\* SetLogFile_format that leaves the format of the Configuration as it was
SetLogFile_format_Skip(t) ==
    /\ At(t, "SetLogFile_format")
    /\ cmu = None
    /\ defaultMu' = None
    /\ frame' = [ frame EXCEPT ![t] = Returned(frame[t], Nil) ]
    /\ UNCHANGED << configOnce, configInstance, cmu, module, lmu, handles,
                    files, exited, calls >>
\* config.SetDefaultFormat(format); the deferred defaultMu.Unlock(); return nil
SetLogFile_format(t) ==
    /\ At(t, "SetLogFile_format")
    /\ cmu = None
    /\ configInstance' = [ configInstance EXCEPT !.defaultFormat = frame[t].format ]
    /\ defaultMu' = None
    /\ frame' = [ frame EXCEPT ![t] = Returned(frame[t], Nil) ]
    /\ UNCHANGED << configOnce, cmu, module, lmu, handles, files, exited, calls >>

\* --------------------------------------------------------------- Logger.log

\* the color of a severity; an unknown severity keeps COLOR_INFO
Color(sev) ==
    CASE sev = INFO -> COLOR_INFO
      [] sev = OK -> COLOR_OK
      [] sev = WARN -> COLOR_WARN
      [] sev = ERROR -> COLOR_ERROR
      [] sev = FATAL -> COLOR_FATAL
      [] sev = DEBUG -> COLOR_DEBUG
      [] OTHER -> COLOR_INFO

\* fmt.Sprintf("%-20s %-6s", msg.Module, msg.Severity)
Metadata(msg) == PadRight(msg.Module, 20) \o <<SP>> \o PadRight(msg.Severity, 6)

\* ConsoleMessage that does not look at the color flag
ConsoleMessage_AlwaysColor(msg, enableColors) ==
    << COLOR_RESET, SP, Color(msg.Severity), SP >> \o Metadata(msg)
        \o << SP, COLOR_RESET, SP >> \o msg.Text
\* the console line printLogMessage builds
ConsoleMessage(msg, enableColors) ==
    IF enableColors
    THEN << COLOR_RESET, SP, Color(msg.Severity), SP >> \o Metadata(msg)
         \o << SP, COLOR_RESET, SP >> \o msg.Text
    ELSE Metadata(msg) \o <<SP>> \o msg.Text

\* the text line of writeToFile, after the time stamp
TextLine(msg) ==
    << "[" >> \o msg.Severity \o << "]", SP >> \o msg.Module
    \o << ":", SP >> \o msg.Text

\* a string as encoding/json writes it
RECURSIVE JSONEscape(_)
JSONEscape(str) ==
    IF str = <<>> THEN <<>>
    ELSE (CASE Head(str) = TAB -> << "\\", "t" >>
            [] Head(str) = "\"" -> << "\\", "\"" >>
            [] Head(str) = "\\" -> << "\\", "\\" >>
            [] OTHER -> << Head(str) >>) \o JSONEscape(Tail(str))

JSONString(str) == << "\"" >> \o JSONEscape(str) \o << "\"" >>

\* json.Marshal(msg), without the Time field
JSONLine(msg) ==
    << "{", "\"Severity\":" >> \o JSONString(msg.Severity)
    \o << ",", "\"Text\":" >> \o JSONString(msg.Text)
    \o << ",", "\"Module\":" >> \o JSONString(msg.Module) \o << "}" >>

\* createLogMessage that joins the operands without fmt.Sprint's spaces
createLogMessage_Joined(l, severity, a) ==
    [ Severity |-> severity,
      Text |-> IF a = <<>> THEN <<>> ELSE a[1].s \o Sprint(Tail(a)),
      Module |-> module[l] ]
\* createLogMessage
createLogMessage(l, severity, a) ==
    [ Severity |-> severity, Text |-> Sprint(a), Module |-> module[l] ]

\* Logger_log that does not wait for l.mu
Logger_log_NoLock(t, in) ==
    /\ CanCall(t)
    /\ \E l \in InstanceLoggers, c \in in.logs :
           /\ lmu' = [ lmu EXCEPT ![l] = t ]
           /\ frame' = [ frame EXCEPT ![t] =
                  [ NewCall(t, in) EXCEPT !.op = "Logger.log", !.l = l,
                                !.logs = CountLog(in, @),
                                !.sev = c.sev, !.args = c.args,
                                !.msg = createLogMessage(l, c.sev, c.args),
                                !.pc = "print_colors" ] ]
    /\ calls' = calls + 1
    /\ UNCHANGED << configOnce, configInstance, cmu, module, defaultMu,
                    handles, files, exited >>
\* a level method of a Logger (Info, OK, Warn, Error, Debug, Fatal) calls
\* l.log: l.mu.Lock(), then createLogMessage
Logger_log(t, in) ==
    /\ CanCall(t)
    /\ \E l \in InstanceLoggers, c \in in.logs :
           /\ lmu[l] = None
           /\ lmu' = [ lmu EXCEPT ![l] = t ]
           /\ frame' = [ frame EXCEPT ![t] =
                  [ NewCall(t, in) EXCEPT !.op = "Logger.log", !.l = l,
                                !.logs = CountLog(in, @),
                                !.sev = c.sev, !.args = c.args,
                                !.msg = createLogMessage(l, c.sev, c.args),
                                !.pc = "print_colors" ] ]
    /\ calls' = calls + 1
    /\ UNCHANGED << configOnce, configInstance, cmu, module, defaultMu,
                    handles, files, exited >>

\* a level function of the package (Info, OK, Warn, Error, Debug, Fatal):
\* defaultMu.Lock()
Level_default(t, in) ==
    /\ CanCall(t)
    /\ defaultMu = None
    /\ defaultMu' = t
    /\ \E c \in in.logs :
           frame' = [ frame EXCEPT ![t] =
               [ NewCall(t, in) EXCEPT !.op = "log", !.l = DefaultLogger, !.global = TRUE,
                             !.logs = CountLog(in, @),
                             !.sev = c.sev, !.args = c.args, !.pc = "log_lock" ] ]
    /\ calls' = calls + 1
    /\ UNCHANGED << configOnce, configInstance, cmu, module, lmu, handles,
                    files, exited >>

\* defaultLogger.log: l.mu.Lock(), then createLogMessage
Logger_log_lock(t) ==
    /\ At(t, "log_lock")
    /\ lmu[frame[t].l] = None
    /\ lmu' = [ lmu EXCEPT ![frame[t].l] = t ]
    /\ frame' = [ frame EXCEPT ![t].pc = "print_colors",
           ![t].msg = createLogMessage(frame[t].l, frame[t].sev, frame[t].args) ]
    /\ UNCHANGED << configOnce, configInstance, cmu, module, defaultMu,
                    handles, files, exited, calls >>

\* printLogMessage_colors with log.Fatal called as soon as the console line
\* is formatted, before writeToFile
printLogMessage_colors_FatalFirst(t) ==
    /\ At(t, "print_colors")
    /\ cmu = None
    /\ SetConfig(GetConfiguration)
    /\ LET line == ConsoleMessage(frame[t].msg, GetConfiguration.enableColors)
       IN IF frame[t].msg.Severity = FATAL
          THEN /\ exited' = TRUE
               /\ frame' = [ frame EXCEPT ![t] =
                      Returned([ frame[t] EXCEPT !.consoleMessage = line,
                                                 !.console = Append(@, line) ],
                               Nil) ]
          ELSE /\ UNCHANGED exited
               /\ frame' = [ frame EXCEPT ![t].pc = "write_file",
                                          ![t].consoleMessage = line ]
    /\ UNCHANGED << cmu, module, lmu, defaultMu, handles, files, calls >>
\* printLogMessage: config.GetEnableColors() and the console line
printLogMessage_colors(t) ==
    /\ At(t, "print_colors")
    /\ cmu = None
    /\ SetConfig(GetConfiguration)
    /\ frame' = [ frame EXCEPT ![t].pc = "write_file",
           ![t].consoleMessage =
               ConsoleMessage(frame[t].msg, GetConfiguration.enableColors) ]
    /\ UNCHANGED << cmu, module, lmu, defaultMu, handles, files, exited, calls >>

\* writeToFile_file without the check of the default file
writeToFile_file_NoCheck(t) ==
    /\ At(t, "write_file")
    /\ cmu = None
    /\ frame' = [ frame EXCEPT ![t].pc = "write_handle" ]
    /\ UNCHANGED << configOnce, configInstance, cmu, module, lmu, defaultMu,
                    handles, files, exited, calls >>
\* writeToFile: config.GetDefaultFile() == "" returns nil
writeToFile_file(t) ==
    /\ At(t, "write_file")
    /\ cmu = None
    /\ frame' = [ frame EXCEPT ![t].pc =
           IF configInstance.defaultFile = <<>> THEN "console" ELSE "write_handle" ]
    /\ UNCHANGED << configOnce, configInstance, cmu, module, lmu, defaultMu,
                    handles, files, exited, calls >>

\* writeToFile_handle that returns without an error when the handle is nil
writeToFile_handle_Silent(t) ==
    /\ At(t, "write_handle")
    /\ cmu = None
    /\ frame' = [ frame EXCEPT ![t] =
           IF configInstance.logFile = NoFile
           THEN [ frame[t] EXCEPT !.pc = "console" ]
           ELSE [ frame[t] EXCEPT !.pc = "write_format",
                                  !.logFile = configInstance.logFile ] ]
    /\ UNCHANGED << configOnce, configInstance, cmu, module, lmu, defaultMu,
                    handles, files, exited, calls >>
\* writeToFile_handle whose getLogFile does not take c.mu.RLock()
writeToFile_handle_NoRLock(t) ==
    /\ At(t, "write_handle")
    /\ frame' = [ frame EXCEPT ![t] =
           IF configInstance.logFile = NoFile
           THEN [ frame[t] EXCEPT !.pc = "console",
                                  !.stderr = Append(@, ErrNoHandle) ]
           ELSE [ frame[t] EXCEPT !.pc = "write_format",
                                  !.logFile = configInstance.logFile ] ]
    /\ UNCHANGED << configOnce, configInstance, cmu, module, lmu, defaultMu,
                    handles, files, exited, calls >>
\* writeToFile: config.getLogFile(); a nil handle is an error, which
\* printLogMessage reports on os.Stderr
writeToFile_handle(t) ==
    /\ At(t, "write_handle")
    /\ cmu = None
    /\ frame' = [ frame EXCEPT ![t] =
           IF configInstance.logFile = NoFile
           THEN [ frame[t] EXCEPT !.pc = "console",
                                  !.stderr = Append(@, ErrNoHandle) ]
           ELSE [ frame[t] EXCEPT !.pc = "write_format",
                                  !.logFile = configInstance.logFile ] ]
    /\ UNCHANGED << configOnce, configInstance, cmu, module, lmu, defaultMu,
                    handles, files, exited, calls >>

\* writeToFile_format whose switch has no default branch: an unknown format
\* writes nothing and is no error
writeToFile_format_Silent(t) ==
    /\ At(t, "write_format")
    /\ cmu = None
    /\ frame' = [ frame EXCEPT ![t] =
           IF configInstance.defaultFormat \in { FormatTXT, FormatJSON }
           THEN [ frame[t] EXCEPT !.pc = "write_line",
                                  !.format = configInstance.defaultFormat ]
           ELSE [ frame[t] EXCEPT !.pc = "console", !.logFile = NoFile ] ]
    /\ UNCHANGED << configOnce, configInstance, cmu, module, lmu, defaultMu,
                    handles, files, exited, calls >>
\* writeToFile: config.GetDefaultFormat() and the line in that format; an
\* unknown format is an error
writeToFile_format(t) ==
    /\ At(t, "write_format")
    /\ cmu = None
    /\ frame' = [ frame EXCEPT ![t] =
           IF configInstance.defaultFormat \in { FormatTXT, FormatJSON }
           THEN [ frame[t] EXCEPT !.pc = "write_line",
                                  !.format = configInstance.defaultFormat ]
           ELSE [ frame[t] EXCEPT !.pc = "console", !.logFile = NoFile,
                                  !.stderr = Append(@, ErrUnsupported) ] ]
    /\ UNCHANGED << configOnce, configInstance, cmu, module, lmu, defaultMu,
                    handles, files, exited, calls >>

\* the line writeToFile writes for msg in format
FileLine(msg, format) ==
    IF format = FormatTXT THEN TextLine(msg) ELSE JSONLine(msg)

\* writeToFile_line whose failed write ends the log call with the error,
\* before the console line
writeToFile_line_Propagate(t) ==
    /\ At(t, "write_line")
    /\ LET h == frame[t].logFile
           line == FileLine(frame[t].msg, frame[t].format)
       IN IF IsClosed(h)
          THEN /\ frame' = [ frame EXCEPT ![t] =
                      Returned([ frame[t] EXCEPT !.logFile = NoFile ],
                               IF frame[t].format = FormatTXT THEN ErrWriteText
                               ELSE ErrWriteJSON) ]
               /\ UNCHANGED files
          ELSE /\ files' = [ files EXCEPT ![h.path] = Append(@, line) ]
               /\ frame' = [ frame EXCEPT ![t].pc = "console",
                      ![t].logFile = NoFile,
                      ![t].written = Append(@, [ path |-> h.path, line |-> line ]) ]
    /\ UNCHANGED << configOnce, configInstance, cmu, module, lmu, defaultMu,
                    handles, exited, calls >>
\* writeToFile_line that writes the line over the content of the file
writeToFile_line_Overwrite(t) ==
    /\ At(t, "write_line")
    /\ LET h == frame[t].logFile
           line == FileLine(frame[t].msg, frame[t].format)
       IN IF IsClosed(h)
          THEN /\ frame' = [ frame EXCEPT ![t].pc = "console",
                      ![t].logFile = NoFile,
                      ![t].stderr = Append(@,
                          IF frame[t].format = FormatTXT THEN ErrWriteText
                          ELSE ErrWriteJSON) ]
               /\ UNCHANGED files
          ELSE /\ files' = [ files EXCEPT ![h.path] = << line >> ]
               /\ frame' = [ frame EXCEPT ![t].pc = "console",
                      ![t].logFile = NoFile,
                      ![t].written = Append(@, [ path |-> h.path, line |-> line ]) ]
    /\ UNCHANGED << configOnce, configInstance, cmu, module, lmu, defaultMu,
                    handles, exited, calls >>
\* writeToFile_line that writes through the handle stored now when the
\* handle it holds is closed
writeToFile_line_Retry(t) ==
    /\ At(t, "write_line")
    /\ LET held == frame[t].logFile
           h == IF IsClosed(held) THEN configInstance.logFile ELSE held
           line == FileLine(frame[t].msg, frame[t].format)
       IN IF IsClosed(h)
          THEN /\ frame' = [ frame EXCEPT ![t].pc = "console",
                      ![t].logFile = NoFile,
                      ![t].stderr = Append(@,
                          IF frame[t].format = FormatTXT THEN ErrWriteText
                          ELSE ErrWriteJSON) ]
               /\ UNCHANGED files
          ELSE /\ files' = [ files EXCEPT ![h.path] = Append(@, line) ]
               /\ frame' = [ frame EXCEPT ![t].pc = "console",
                      ![t].logFile = NoFile,
                      ![t].written = Append(@, [ path |-> h.path, line |-> line ]) ]
    /\ UNCHANGED << configOnce, configInstance, cmu, module, lmu, defaultMu,
                    handles, exited, calls >>
\* writeToFile_line that drops the stored handle when the write fails
writeToFile_line_ClearBroken(t) ==
    /\ At(t, "write_line")
    /\ LET h == frame[t].logFile
           line == FileLine(frame[t].msg, frame[t].format)
       IN IF IsClosed(h)
          THEN /\ frame' = [ frame EXCEPT ![t].pc = "console",
                      ![t].logFile = NoFile,
                      ![t].stderr = Append(@,
                          IF frame[t].format = FormatTXT THEN ErrWriteText
                          ELSE ErrWriteJSON) ]
               /\ configInstance' = [ configInstance EXCEPT !.logFile = NoFile ]
               /\ UNCHANGED files
          ELSE /\ files' = [ files EXCEPT ![h.path] = Append(@, line) ]
               /\ frame' = [ frame EXCEPT ![t].pc = "console",
                      ![t].logFile = NoFile,
                      ![t].written = Append(@, [ path |-> h.path, line |-> line ]) ]
               /\ UNCHANGED configInstance
    /\ UNCHANGED << configOnce, cmu, module, lmu, defaultMu,
                    handles, exited, calls >>
\* writeToFile: fmt.Fprintln(logFile, line); a failed write is an error
writeToFile_line(t) ==
    /\ At(t, "write_line")
    /\ LET h == frame[t].logFile
           line == FileLine(frame[t].msg, frame[t].format)
       IN IF IsClosed(h)
          THEN /\ frame' = [ frame EXCEPT ![t].pc = "console",
                      ![t].logFile = NoFile,
                      ![t].stderr = Append(@,
                          IF frame[t].format = FormatTXT THEN ErrWriteText
                          ELSE ErrWriteJSON) ]
               /\ UNCHANGED files
          ELSE /\ files' = [ files EXCEPT ![h.path] = Append(@, line) ]
               /\ frame' = [ frame EXCEPT ![t].pc = "console",
                      ![t].logFile = NoFile,
                      ![t].written = Append(@, [ path |-> h.path, line |-> line ]) ]
    /\ UNCHANGED << configOnce, configInstance, cmu, module, lmu, defaultMu,
                    handles, exited, calls >>

\* printLogMessage_console without the deferred l.mu.Unlock()
printLogMessage_console_KeepLock(t) ==
    /\ At(t, "console")
    /\ frame' = [ frame EXCEPT ![t] =
           Returned([ frame[t] EXCEPT !.console = Append(@, frame[t].consoleMessage) ],
                    Nil) ]
    /\ IF frame[t].msg.Severity = FATAL
       THEN /\ exited' = TRUE
            /\ UNCHANGED defaultMu
       ELSE /\ defaultMu' = IF frame[t].global THEN None ELSE defaultMu
            /\ UNCHANGED exited
    /\ UNCHANGED << configOnce, configInstance, cmu, module, lmu, handles, files,
                    calls >>
\* printLogMessage_console that prints no DEBUG line
printLogMessage_console_NoDebug(t) ==
    /\ At(t, "console")
    /\ frame' = [ frame EXCEPT ![t] =
           Returned([ frame[t] EXCEPT !.console =
                          IF frame[t].msg.Severity = DEBUG THEN @
                          ELSE Append(@, frame[t].consoleMessage) ],
                    Nil) ]
    /\ IF frame[t].msg.Severity = FATAL
       THEN /\ exited' = TRUE
            /\ UNCHANGED << lmu, defaultMu >>
       ELSE /\ lmu' = [ lmu EXCEPT ![frame[t].l] = None ]
            /\ defaultMu' = IF frame[t].global THEN None ELSE defaultMu
            /\ UNCHANGED exited
    /\ UNCHANGED << configOnce, configInstance, cmu, module, handles, files,
                    calls >>
\* printLogMessage: log.Fatal(consoleMessage) ends the process, with the
\* locks held; log.Println(consoleMessage) is followed by the deferred unlocks
printLogMessage_console(t) ==
    /\ At(t, "console")
    /\ frame' = [ frame EXCEPT ![t] =
           Returned([ frame[t] EXCEPT !.console = Append(@, frame[t].consoleMessage) ],
                    Nil) ]
    /\ IF frame[t].msg.Severity = FATAL
       THEN /\ exited' = TRUE
            /\ UNCHANGED << lmu, defaultMu >>
       ELSE /\ lmu' = [ lmu EXCEPT ![frame[t].l] = None ]
            /\ defaultMu' = IF frame[t].global THEN None ELSE defaultMu
            /\ UNCHANGED exited
    /\ UNCHANGED << configOnce, configInstance, cmu, module, handles, files,
                    calls >>

\* ------------------------------------------------------------ specification

\* the steps of the threads T whose callers draw their arguments from in
Step(T, in) ==
    \E t \in T :
        \/ Logger_Init(t, in)
        \/ Init_default(t, in)
        \/ Logger_Init_lock(t)
        \/ Logger_Init_store(t)
        \/ SetDefaultFile(t, in)
        \/ SetDefaultFile_lock(t)
        \/ SetDefaultFile_close(t)
        \/ SetDefaultFile_path(t)
        \/ SetDefaultFile_open(t)
        \/ SetDefaultFormat(t, in)
        \/ SetEnableColors(t, in)
        \/ Close(t, in)
        \/ Close_body(t)
        \/ Reset(t, in)
        \/ Reset_body(t)
        \/ CloseUnderneath(t, in)
        \/ SetLogFile(t, in)
        \/ SetLogFile_format(t)
        \/ Logger_log(t, in)
        \/ Level_default(t, in)
        \/ Logger_log_lock(t)
        \/ printLogMessage_colors(t)
        \/ writeToFile_file(t)
        \/ writeToFile_handle(t)
        \/ writeToFile_format(t)
        \/ writeToFile_line(t)
        \/ printLogMessage_console(t)

\* concurrent callers
Next == Step(Threads, FewInputs)
Spec == Init /\ [][Next]_vars

\* one caller
NextSeq == Step({1}, AllInputs)
SpecSeq == Init /\ [][NextSeq]_vars

\* the steps of thread t inside a call
Continue(t) ==
    \/ Logger_Init_lock(t)
    \/ Logger_Init_store(t)
    \/ SetDefaultFile_lock(t)
    \/ SetDefaultFile_close(t)
    \/ SetDefaultFile_path(t)
    \/ SetDefaultFile_open(t)
    \/ Close_body(t)
    \/ Reset_body(t)
    \/ SetLogFile_format(t)
    \/ Logger_log_lock(t)
    \/ printLogMessage_colors(t)
    \/ writeToFile_file(t)
    \/ writeToFile_handle(t)
    \/ writeToFile_format(t)
    \/ writeToFile_line(t)
    \/ printLogMessage_console(t)

\* the calls of TestConcurrentGlobalFunctions and the calls that take the
\* lock of the Configuration, one argument each: the waits depend on the
\* locks, not on the values
LockInputs ==
    [ names |-> { << "n" >> },
      setLogFile |-> [ path : { PathA }, format : { FormatTXT } ],
      filePaths |-> { PathB },
      formats |-> { FormatJSON },
      logs |-> [ sev : { INFO, FATAL }, args : { Numbers } ],
      history |-> FALSE,
      count |-> FALSE ]

NextFair == Step(Threads, LockInputs)

\* concurrent callers under a fair scheduler: a goroutine that can go on
\* inside its call does so
SpecFair == Init /\ [][NextFair]_vars /\ \A t \in Threads : WF_vars(Continue(t))

\* a severity that no level method passes to l.log
TRACE == << "T", "R", "A", "C", "E" >>

\* one caller that logs with every severity, and inside the package with
\* one that printLogMessage does not know, with the colors on and off
ColorInputs ==
    [ names |-> { << "n" >> },
      setLogFile |-> [ path : { PathA }, format : { FormatTXT } ],
      filePaths |-> { PathB },
      formats |-> { FormatJSON },
      logs |-> [ sev : Severities \cup { TRACE }, args : { Numbers } ],
      history |-> TRUE,
      count |-> FALSE ]

NextColor == Step({ 1 }, ColorInputs)
SpecColor == Init /\ [][NextColor]_vars

\* The state in which the goroutines of TestConcurrentLogging start: a
\* logger is initialised and SetLogFile(a, TEXT) has returned.
InitLog ==
    /\ configOnce = TRUE
    /\ configInstance =
           [ NewConfiguration EXCEPT !.defaultFile = PathA,
                                     !.logFile = [ id |-> 1, path |-> PathA ] ]
    /\ cmu = None
    /\ module = [ l \in Loggers |-> IF l \in InstanceLoggers THEN <<"n">> ELSE <<>> ]
    /\ lmu = [ l \in Loggers |-> None ]
    /\ defaultMu = None
    /\ handles = { [ id |-> 1, path |-> PathA ] }
    /\ files = [ p \in FileNames |-> <<>> ]
    /\ exited = FALSE
    /\ calls = 0
    /\ frame = [ t \in Threads |-> Idle ]

\* concurrent callers that count their log calls, from that state
NextLog == Step(Threads, LogInputs)
SpecLog == InitLog /\ [][NextLog]_vars

\* ------------------------------------------------------------------ claims

\* a call of thread t has returned
HasReturned(t, ops) == frame[t].pc = "ret" /\ frame[t].op \in ops

\* m without its leading and trailing white space, stated on the positions
\* of m: the part between the first and the last character that is not white
Trimmed(m) ==
    LET black == { k \in 1..Len(m) : m[k] \notin WhiteSpace }
    IN IF black = {} THEN <<>>
       ELSE SubSeq(m, CHOOSE i \in black : \A k \in black : i <= k,
                      CHOOSE j \in black : \A k \in black : k <= j)

\* C1: Logger.Init(m) and Init(m) return success exactly when m, trimmed of
\* leading and trailing white space, is not empty and has at most 50
\* characters; on success the module the logger stores is the trimmed m.
C1_InitAcceptsTrimmedName ==
    \A t \in Threads :
        HasReturned(t, {"Logger.Init", "Init"}) =>
            LET s == Trimmed(frame[t].name)
            IN /\ frame[t].err = Nil <=> (s # <<>> /\ Len(s) <= 50)
               /\ frame[t].err = Nil => module[frame[t].l] = s

\* Init has accepted a name with white space around it and stored it trimmed
C1_Witness ==
    \E t \in Threads :
        /\ HasReturned(t, {"Init"})
        /\ frame[t].name = <<TAB, "m", SP>>
        /\ frame[t].err = Nil
        /\ module[DefaultLogger] = <<"m">>

\* C2: in every state, whatever the interleaving of SetLogFile,
\* SetDefaultFile, Close and Reset, at most one file handle is open, and an
\* open handle is the one the Configuration stores.
C2_OneOpenHandle ==
    /\ Cardinality(handles) <= 1
    /\ \A h \in handles : h = GetConfiguration.logFile

\* two threads have each set a file with success; the file of one is open
C2_Witness ==
    /\ HasReturned(1, {"SetLogFile"}) /\ frame[1].err = Nil
    /\ frame[1].path = PathA
    /\ HasReturned(2, {"SetDefaultFile"}) /\ frame[2].err = Nil
    /\ frame[2].path = PathB
    /\ \E h \in handles : handles = { h } /\ h.path = PathB

\* C3: whenever no mutator of the Configuration is in its critical section,
\* a handle is stored exactly when the default path is not empty and the
\* open of that path has succeeded; the handle is one of that path.
C3_HandleIffPathOpened ==
    cmu = None =>
        LET c == GetConfiguration
        IN /\ c.logFile # NoFile <=> (c.defaultFile # <<>> /\ CanOpen(c.defaultFile))
           /\ c.logFile # NoFile => c.logFile.path = c.defaultFile

\* SetDefaultFile has returned from an open that failed: a path that could
\* not be opened is stored and no handle is
C3_Witness ==
    /\ cmu = None
    /\ \E t \in Threads :
           HasReturned(t, {"SetDefaultFile"}) /\ frame[t].err = ErrOpen
    /\ GetConfiguration.defaultFile = PathNoDir
    /\ GetConfiguration.logFile = NoFile

\* a call that sets the log file has failed on the open
OpenFailed(t) ==
    \/ HasReturned(t, {"SetDefaultFile"}) /\ frame[t].err = ErrOpen
    \/ HasReturned(t, {"SetLogFile"}) /\ frame[t].err = ErrSetLogFile

\* C4: when SetDefaultFile or SetLogFile has failed on the open, no handle
\* is stored and GetDefaultFile() returns the empty string.
C4_FailedOpenDisablesFileLogging ==
    \A t \in Threads :
        OpenFailed(t) =>
            /\ GetConfiguration.logFile = NoFile
            /\ GetConfiguration.defaultFile = <<>>

\* thread t makes a call of op in this step, and no other thread moves
Calling(t, op) ==
    /\ calls' = calls + 1
    /\ frame'[t].op = op
    /\ \A u \in Threads \ { t } : frame'[u] = frame[u]

\* the step leaves the Configuration and the files as they are
ConfigurationUntouched ==
    /\ GetConfiguration' = GetConfiguration
    /\ handles' = handles
    /\ files' = files

\* C5: SetLogFile(path, format) with a format other than TEXT (0) and
\* JSON (1) returns the error "invalid log format" at once and leaves the
\* path, the handle and the format of the Configuration as they were.
C5_InvalidFormatRejected ==
    [][ \A t \in Threads :
          (Calling(t, "SetLogFile") /\ frame'[t].format \notin { 0, 1 }) =>
              /\ frame'[t].pc = "ret"
              /\ frame'[t].err = "invalid log format"
              /\ ConfigurationUntouched ]_vars

\* the call before the one thread t is in has set the log file to path, in
\* format, with success
AfterSetLogFile(t, path, format) ==
    frame[t].prev = [ op |-> "SetLogFile", path |-> path, format |-> format,
                      err |-> Nil ]

\* SetLogFile with format 99 has been rejected after a SetLogFile that
\* opened a file for JSON, and that file is still the one configured
C5_Witness ==
    \E t \in Threads :
        /\ HasReturned(t, {"SetLogFile"})
        /\ frame[t].format = 99 /\ frame[t].err = ErrInvalidFormat
        /\ AfterSetLogFile(t, PathA, FormatJSON)
        /\ GetConfiguration.defaultFile = PathA
        /\ GetConfiguration.defaultFormat = FormatJSON
        /\ GetConfiguration.logFile \in handles

\* a path SetLogFile has to reject
BadPath(path) ==
    /\ path # <<>>
    /\ \/ path[1] \in WhiteSpace
       \/ path[Len(path)] \in WhiteSpace
       \/ \E k \in 1..Len(path) : path[k] = NUL
       \/ Len(path) > 260

\* C6: SetLogFile(path, format) with a path that is not empty and has
\* leading or trailing white space, a null byte or more than 260 characters
\* returns an error at once: no file is closed or opened and the
\* Configuration is as it was.
C6_InvalidPathRejected ==
    [][ \A t \in Threads :
          (Calling(t, "SetLogFile") /\ BadPath(frame'[t].path)) =>
              /\ frame'[t].pc = "ret"
              /\ frame'[t].err # Nil
              /\ ConfigurationUntouched ]_vars

\* SetLogFile with a path of 261 characters has been rejected after a
\* SetLogFile that opened a file, and that file is still open
C6_Witness ==
    \E t \in Threads :
        /\ HasReturned(t, {"SetLogFile"})
        /\ frame[t].path = PathLong /\ frame[t].err = ErrPathTooLong
        /\ AfterSetLogFile(t, PathA, FormatTXT)
        /\ GetConfiguration.defaultFile = PathA
        /\ GetConfiguration.logFile \in handles

LogOps == { "log", "Logger.log" }

\* C7: SetLogFile("", format) with a valid format returns success and
\* leaves no handle open; while the default path is empty, a log call of
\* any logger writes to no file and reports no error.
C7_EmptyPathDisablesFileLogging ==
    \A t \in Threads :
        /\ ( /\ HasReturned(t, {"SetLogFile"})
             /\ frame[t].path = <<>> /\ frame[t].format \in { 0, 1 } ) =>
                 /\ frame[t].err = Nil
                 /\ handles = {}
                 /\ GetConfiguration.logFile = NoFile
                 /\ GetConfiguration.defaultFile = <<>>
        /\ (frame[t].op \in LogOps /\ GetConfiguration.defaultFile = <<>>) =>
                 /\ frame[t].written = <<>>
                 /\ frame[t].stderr = <<>>

\* a log call of a logger has returned after SetLogFile("", JSON): its line
\* is on the console, nothing is written to a file, no error is reported
C7_Witness ==
    \E t \in Threads :
        /\ HasReturned(t, {"Logger.log"})
        /\ AfterSetLogFile(t, <<>>, FormatJSON)
        /\ frame[t].console # <<>>
        /\ frame[t].written = <<>> /\ frame[t].stderr = <<>>

\* C8: after a SetLogFile(path, format) that succeeded with a path that is
\* not empty, the next log call of any logger, the default one or another,
\* writes its line to path, in format (a JSON line is an object), and
\* reports no error.
C8_SetLogFileIsGlobal ==
    \A t \in Threads, path \in FileNames, format \in { FormatTXT, FormatJSON } :
        (HasReturned(t, LogOps) /\ AfterSetLogFile(t, path, format)) =>
            /\ Len(frame[t].written) = 1
            /\ frame[t].written[1].path = path
            /\ Head(frame[t].written[1].line) = "{" <=> format = FormatJSON
            /\ files[path] # <<>>
            /\ files[path][Len(files[path])] = frame[t].written[1].line
            /\ frame[t].stderr = <<>>

\* a logger that is not the default one has logged after SetLogFile(b, JSON)
\* of the package, and its line is in b
C8_Witness ==
    \E t \in Threads :
        /\ HasReturned(t, {"Logger.log"})
        /\ AfterSetLogFile(t, PathB, FormatJSON)
        /\ Len(frame[t].written) = 1
        /\ frame[t].written[1].path = PathB
        /\ files[PathB] = << frame[t].written[1].line >>

\* the operands of a log call as one string: strings are joined as they
\* are, other values with a space between them
Stringified(a) ==
    IF a = Strings THEN << "x", "y" >>
    ELSE IF a = Numbers THEN << "1", " ", "2" >>
    ELSE << "?" >>

\* the line of a message in a file, after the time stamp of a text line and
\* without the time of a JSON object; no character here needs an escape
ExpectedLine(format, severity, mod, text) ==
    IF format = FormatTXT
    THEN << "[" >> \o severity \o << "]", " " >> \o mod \o << ":", " " >> \o text
    ELSE << "{", "\"Severity\":", "\"" >> \o severity
         \o << "\"", ",", "\"Text\":", "\"" >> \o text
         \o << "\"", ",", "\"Module\":", "\"" >> \o mod \o << "\"", "}" >>

\* C9: after a SetLogFile(path, format) that succeeded, with format TEXT or
\* JSON and one caller, an Info call of a logger appends exactly one line to
\* the file of path: the line of that format with severity INFO, the module
\* the logger stores and the operands as one string.
C9_InfoAppendsOneLine ==
    \A t \in Threads, path \in FileNames, format \in { FormatTXT, FormatJSON } :
        ( /\ HasReturned(t, LogOps) /\ frame[t].sev = INFO
          /\ AfterSetLogFile(t, path, format) ) =>
            /\ frame[t].written =
                   << [ path |-> path,
                        line |-> ExpectedLine(format, <<"I", "N", "F", "O">>,
                                     module[frame[t].l], Stringified(frame[t].args)) ] >>
            /\ files[path] # <<>>
            /\ files[path][Len(files[path])] = frame[t].written[1].line

\* Info(1, 2) of the logger of module "m" has returned after
\* SetLogFile(a, TEXT), and the file a holds its line
C9_Witness ==
    \E t \in Threads :
        /\ HasReturned(t, {"Logger.log"}) /\ frame[t].sev = INFO
        /\ AfterSetLogFile(t, PathA, FormatTXT)
        /\ frame[t].args = Numbers
        /\ module[frame[t].l] = <<"m">>
        /\ files[PathA] = << << "[", "I", "N", "F", "O", "]", " ", "m", ":", " ",
                                 "1", " ", "2" >> >>

\* C10: a log call reports at most one error on os.Stderr, writes nothing
\* to a file when it reports one, puts its line on the console once and
\* returns no error; a call other than Fatal leaves the process running.
\* A log call made after the handle was closed underneath the
\* Configuration, with a format that is supported, reports the failed write.
C10_WriteFailureIsReportedOnce ==
    \A t \in Threads :
        HasReturned(t, LogOps) =>
            /\ Len(frame[t].stderr) <= 1
            /\ frame[t].stderr # <<>> => frame[t].written = <<>>
            /\ frame[t].console = << frame[t].consoleMessage >>
            /\ frame[t].consoleMessage # <<>>
            /\ frame[t].err = Nil
            /\ frame[t].sev # FATAL => ~exited
            /\ ( /\ frame[t].prev.op = "CloseUnderneath"
                 /\ GetConfiguration.defaultFormat \in { 0, 1 } ) =>
                     frame[t].stderr \in { << ErrWriteText >>, << ErrWriteJSON >> }

\* a log call has returned after the handle was closed underneath: the
\* failed write is reported and the console line is written
C10_Witness ==
    \E t \in Threads :
        /\ HasReturned(t, {"Logger.log"})
        /\ frame[t].prev.op = "CloseUnderneath"
        /\ frame[t].stderr = << ErrWriteText >>
        /\ frame[t].console # <<>>
        /\ ~exited

\* C11: a Close() called directly after another Close() returns success and
\* leaves the Configuration, the open handles and the files as they are.
C11_CloseIsIdempotent ==
    [][ \A t \in Threads :
          (frame'[t].op = "Close" /\ frame'[t].prev.op = "Close") =>
              /\ frame'[t].err = Nil
              /\ ConfigurationUntouched ]_vars

\* Close() has returned success directly after a Close() that returned
\* success
C11_Witness ==
    \E t \in Threads :
        /\ HasReturned(t, {"Close"}) /\ frame[t].err = Nil
        /\ frame[t].prev = [ NoCall EXCEPT !.op = "Close" ]

\* C12: after Close() has returned, GetDefaultFile() returns the empty
\* string and no handle is stored.
C12_CloseClearsPathAndHandle ==
    \A t \in Threads :
        HasReturned(t, {"Close"}) =>
            /\ GetConfiguration.defaultFile = <<>>
            /\ GetConfiguration.logFile = NoFile

\* the sum of f over the set S
RECURSIVE Sum(_, _)
Sum(f, S) ==
    IF S = {} THEN 0
    ELSE LET x == CHOOSE y \in S : TRUE IN f[x] + Sum(f, S \ { x })

\* the number of log calls made, by callers that count them
LogCalls == Sum([ t \in Threads |-> frame[t].logs ], Threads)
\* the number of lines in the files
TotalLines == Sum([ p \in FileNames |-> Len(files[p]) ], FileNames)
\* no call is in progress and the process runs
Quiescent == ~exited /\ \A t \in Threads : frame[t].pc \in { "idle", "ret" }

\* C13: from a state with a file configured, the files hold at most as
\* many lines as log calls were made, whatever runs concurrently; when the
\* log calls are the only calls made and all have returned, the configured
\* file holds exactly one line per call.
C13_AtMostOneLinePerCall ==
    /\ TotalLines <= LogCalls
    /\ (Quiescent /\ calls = LogCalls) => Len(files[PathA]) = LogCalls

\* both goroutines have logged, three calls in all and no other call, and
\* the file holds three lines
C13_Witness ==
    /\ Quiescent
    /\ frame[1].logs >= 1 /\ frame[2].logs >= 1
    /\ LogCalls = 3 /\ calls = 3
    /\ Len(files[PathA]) = 3

\* thread t is in a log call, between the creation of its message and its
\* console write: its file write and its console write lie in this span
InLog(t) ==
    /\ frame[t].op \in LogOps
    /\ frame[t].pc \in { "print_colors", "write_file", "write_handle",
                          "write_format", "write_line", "console" }

\* C14: two log calls on the same Logger are never both between message
\* creation and console write, so the file write and the console write of
\* one are both before or both after those of the other.
C14_LogCallsOfALoggerDoNotInterleave ==
    \A t, u \in Threads :
        (t # u /\ InLog(t) /\ InLog(u)) => frame[t].l # frame[u].l

\* a log call on a logger has written its line to the file and not yet to
\* the console, after a log call of another goroutine on the same logger
\* has written both
C14_Witness ==
    \E t, u \in Threads :
        /\ t # u
        /\ frame[t].op = "Logger.log" /\ frame[t].pc = "console"
        /\ frame[t].written # <<>>
        /\ HasReturned(u, {"Logger.log"}) /\ frame[u].l = frame[t].l
        /\ frame[u].written # <<>> /\ frame[u].console # <<>>

\* C15: no log call writes more than one line, so none writes to two
\* files; and a log call made after SetLogFile(b, format) has returned,
\* from a state in which file a was configured and with no other change of
\* the Configuration, writes its line to b.
C15_LogCallsAfterSwitchWriteToNewFile ==
    \A t \in Threads :
        /\ Len(frame[t].written) <= 1
        /\ \A format \in { FormatTXT, FormatJSON } :
               ( /\ HasReturned(t, LogOps)
                 /\ AfterSetLogFile(t, PathB, format)
                 /\ calls = LogCalls + 1 ) =>
                   /\ Len(frame[t].written) = 1
                   /\ frame[t].written[1].path = PathB

\* file a holds a line of a log call made before the switch, and the log
\* call made after SetLogFile(b, TEXT) has written its line to b
C15_Witness ==
    \E t \in Threads :
        /\ HasReturned(t, LogOps)
        /\ AfterSetLogFile(t, PathB, FormatTXT)
        /\ calls = LogCalls + 1
        /\ Len(files[PathA]) = 1
        /\ files[PathB] = << frame[t].written[1].line >>

\* thread t is inside a call
InCall(t) == frame[t].pc \notin { "idle", "ret" }

\* C16: while the process runs, some goroutine that is inside a call can
\* take its next step (no cyclic wait on defaultMu, a Logger's mu and the
\* Configuration's mu), and under fair scheduling every call returns unless
\* a Fatal call ends the process first.
C16_EveryCallReturns ==
    /\ []( (~exited /\ \E t \in Threads : InCall(t)) =>
               \E t \in Threads : ENABLED Continue(t) )
    /\ \A t \in Threads : InCall(t) ~> (frame[t].pc = "ret" \/ exited)

\* SetLogFile holds defaultMu and waits for the mu of the Configuration,
\* which a call of another goroutine holds
C16_Witness ==
    \E t, u \in Threads :
        /\ t # u
        /\ frame[t].op = "SetLogFile" /\ frame[t].pc = "SetDefaultFile_lock"
        /\ defaultMu = t
        /\ cmu = u /\ InCall(u)

\* C17: the Configuration is constructed once: until the first call of
\* GetConfiguration there is no instance and the call gets one with no path,
\* no handle, the TEXT format and colors enabled; configOnce never runs a
\* second time, and every later call, of any goroutine, gets the instance
\* that was stored.
C17_ConfigurationIsConstructedOnce ==
    /\ []( IF configOnce
           THEN GetConfiguration = configInstance
           ELSE GetConfiguration =
                    [ defaultFile |-> <<>>, logFile |-> NoFile,
                      defaultFormat |-> FormatTXT, enableColors |-> TRUE ] )
    /\ [][ configOnce => configOnce' ]_vars
    /\ [][ (~configOnce /\ configOnce') =>
              \E t \in Threads :
                  /\ frame'[t] # frame[t]
                  /\ \/ configInstance' = NewConfiguration
                     \/ /\ frame'[t].op = "SetDefaultFormat"
                        /\ configInstance' =
                               [ NewConfiguration EXCEPT
                                   !.defaultFormat = frame'[t].format ]
                     \/ /\ frame'[t].op = "SetEnableColors"
                        /\ configInstance' =
                               [ NewConfiguration EXCEPT
                                   !.enableColors = frame'[t].enable ] ]_vars

\* two goroutines are inside calls that both called GetConfiguration, and
\* the one that came second found the change of the first
C17_Witness ==
    \E t, u \in Threads :
        /\ t # u
        /\ frame[t].op = "SetLogFile" /\ frame[t].pc = "SetLogFile_format"
        /\ frame[u].op \in LogOps /\ frame[u].pc = "write_format"
        /\ frame[u].logFile = GetConfiguration.logFile
        /\ frame[u].logFile # NoFile
        /\ configOnce

\* C18: the process ends only in the last step of a FATAL log call, which
\* writes the console line, and after that call's writeToFile: a line was
\* written to the file, or the error was reported, or no file was configured;
\* while a log call of another severity returns with the process running.
C18_OnlyFatalEndsTheProcessAfterItsWrites ==
    /\ [][ (~exited /\ exited') =>
              \E t \in Threads :
                  /\ frame[t].op \in LogOps /\ frame[t].pc = "console"
                  /\ frame[t].msg.Severity = FATAL
                  /\ frame'[t].pc = "ret"
                  /\ frame'[t].console = << frame[t].consoleMessage >>
                  /\ \/ Len(frame[t].written) = 1
                     \/ Len(frame[t].stderr) = 1
                     \/ GetConfiguration.defaultFile = <<>> ]_vars
    /\ [][ \A t \in Threads :
              ( /\ frame[t].op \in LogOps /\ frame[t].pc # "ret"
                /\ frame'[t].pc = "ret"
                /\ frame[t].msg.Severity # FATAL ) => ~exited' ]_vars

\* a Fatal call ended the process after its line went to the file and to the
\* console
C18_Witness ==
    \E t \in Threads :
        /\ exited
        /\ HasReturned(t, LogOps)
        /\ frame[t].msg.Severity = FATAL
        /\ Len(frame[t].written) = 1
        /\ files[frame[t].written[1].path] # <<>>
        /\ frame[t].console # <<>>

\* sub occurs in s as a run of consecutive characters
IsInfix(sub, s) ==
    \E i \in 0..(Len(s) - Len(sub)) :
        \A k \in 1..Len(sub) : s[i + k] = sub[k]

\* C19: a level-function call that has returned, of any severity, on any
\* logger and with any Configuration, has written exactly one console line,
\* and the line contains the module of the logger and the severity.
C19_EveryLogCallWritesOneConsoleLine ==
    \A t \in Threads :
        HasReturned(t, LogOps) =>
            /\ Len(frame[t].console) = 1
            /\ IsInfix(module[frame[t].l], frame[t].console[1])
            /\ IsInfix(frame[t].sev, frame[t].console[1])

\* a Debug call of an initialised logger whose file write failed has printed
\* its line
C19_Witness ==
    \E t \in Threads :
        /\ HasReturned(t, { "Logger.log" })
        /\ frame[t].sev = DEBUG
        /\ module[frame[t].l] # <<>>
        /\ frame[t].stderr # <<>>
        /\ Len(frame[t].console) = 1
        /\ IsInfix(module[frame[t].l] \o Rep(SP, 20 - Len(module[frame[t].l]))
                       \o << SP >> \o DEBUG,
                   frame[t].console[1])

\* C20: the module of a Logger changes only in the step of an Init on that
\* Logger that stores its trimmed name, and a log call in progress carries
\* in its message the module the Logger has: no Init stores between the
\* creation of the message and its console line, so the message has the
\* value from before or from after each concurrent Init and no other.
C20_MessageModuleIsAStoredModule ==
    /\ []( \A t \in Threads :
               InLog(t) => frame[t].msg.Module = module[frame[t].l] )
    /\ [][ \A l \in Loggers :
              module'[l] # module[l] =>
                  \E t \in Threads :
                      /\ frame[t].op \in { "Init", "Logger.Init" }
                      /\ frame[t].l = l
                      /\ frame[t].pc = "Init_store" /\ frame'[t].pc = "ret"
                      /\ frame'[t].err = Nil
                      /\ InitError(frame[t].name) = Nil
                      /\ module'[l] = TrimSpace(frame[t].name) ]_vars

\* a log call of one goroutine is about to print a message with the module
\* that an Init of the other goroutine stored on the same Logger
C20_Witness ==
    \E t, u \in Threads :
        /\ t # u
        /\ HasReturned(t, { "Logger.Init" })
        /\ frame[t].err = Nil
        /\ frame[t].name = << TAB, "m", SP >>
        /\ frame[u].op = "Logger.log" /\ frame[u].pc = "console"
        /\ frame[u].l = frame[t].l
        /\ frame[u].msg.Module = << "m" >>
        /\ calls = 3

InitOps == { "Init", "Logger.Init" }

\* C21: an Init that returns an error (empty, white space only, or longer
\* than 50 characters after trimming) changes the module of no Logger in any
\* of its steps, and the log call that follows it carries the module the
\* Logger had before it.
C21_FailedInitKeepsTheModule ==
    /\ [][ \A t \in Threads :
              ( /\ frame'[t] # frame[t]
                /\ frame'[t].op \in InitOps
                /\ frame'[t].pc = "ret" /\ frame'[t].err # Nil ) =>
                  /\ module' = module
                  /\ frame'[t].err = InitError(frame'[t].name)
                  /\ \/ TrimSpace(frame'[t].name) = <<>>
                     \/ Len(TrimSpace(frame'[t].name)) > 50 ]_vars
    /\ [][ \A t \in Threads :
              ( /\ frame[t].op \in InitOps /\ frame[t].pc = "ret"
                /\ frame[t].err # Nil
                /\ frame'[t].op \in LogOps /\ frame'[t].msg # NoMsg
                /\ frame'[t].l = frame[t].l ) =>
                  frame'[t].msg.Module = module[frame[t].l] ]_vars

\* a log call that follows a failed Init on a Logger with a stored module
\* has returned with that module in its message
C21_Witness ==
    \E t \in Threads :
        /\ HasReturned(t, { "Logger.log" })
        /\ frame[t].prev.op = "Logger.Init"
        /\ frame[t].prev.err = ErrModuleTooLong
        /\ frame[t].msg.Module = << "n" >>
        /\ module[frame[t].l] = << "n" >>

\* thread u is between the Lock and the Unlock of c.mu in SetDefaultFile,
\* Close or Reset
MutatorInside(u) ==
    frame[u].pc \in { "SetDefaultFile_close", "SetDefaultFile_path",
                      "SetDefaultFile_open", "Close_body", "Reset_body" }

\* thread t takes a step that reads or writes the Configuration
ConfigurationStep(t) ==
    /\ frame'[t] # frame[t]
    /\ \/ frame[t].pc \in { "print_colors", "write_file", "write_handle",
                            "write_format", "SetDefaultFile_lock",
                            "SetLogFile_format" }
       \/ /\ frame[t].pc \in { "idle", "ret" }
          /\ frame'[t].op \in { "SetDefaultFormat", "SetEnableColors",
                                "Close", "Reset" }

\* C22: a mutator holds c.mu from its first change to its last; no step of
\* another goroutine that reads or writes the Configuration is taken while
\* a mutator is inside, so the states between the close and the open of
\* SetDefaultFile are seen by nobody; a mutator that closes a handle clears
\* it in the same step; and the handle getLogFile returns is the one stored
\* while no mutator is inside.
C22_NoHalfUpdatedConfigurationIsObserved ==
    /\ []( \A u \in Threads : MutatorInside(u) => cmu = u )
    /\ [][ \A t, u \in Threads :
              (t # u /\ MutatorInside(u)) => ~ConfigurationStep(t) ]_vars
    /\ [][ \A u \in Threads :
              (MutatorInside(u) /\ frame'[u] # frame[u]) =>
                  \A h \in handles \ handles' : configInstance'.logFile # h ]_vars
    /\ [][ \A t \in Threads :
              (frame[t].pc = "write_handle" /\ frame'[t].pc = "write_format") =>
                  /\ frame'[t].logFile = configInstance.logFile
                  /\ \A u \in Threads : ~MutatorInside(u) ]_vars

\* a log call waits at getLogFile while SetDefaultFile has closed the old
\* handle and not yet opened the new file
C22_Witness ==
    \E t, u \in Threads :
        /\ t # u
        /\ frame[t].pc = "write_handle"
        /\ frame[u].pc = "SetDefaultFile_open" /\ cmu = u
        /\ GetConfiguration.logFile = NoFile
        /\ GetConfiguration.defaultFile = PathB
        /\ handles = {}

\* C23: a log call gets from getLogFile the handle installed at that moment;
\* its write goes to the file of the handle it holds when that handle is
\* still open, and fails, leaving every file as it is and reporting the
\* error once, when the handle has been closed in the meantime; either way
\* the call goes on to its console line, and a log call that has returned
\* has printed it.
C23_WriteUsesTheHandleObtained ==
    /\ [][ \A t \in Threads :
              (frame[t].pc = "write_handle" /\ frame'[t].pc = "write_format") =>
                  /\ frame'[t].logFile = GetConfiguration.logFile
                  /\ frame'[t].logFile \in handles =>
                         frame'[t].logFile.path = GetConfiguration.defaultFile ]_vars
    /\ [][ \A t \in Threads :
              (frame[t].pc = "write_line" /\ frame'[t] # frame[t]) =>
                  LET h == frame[t].logFile
                  IN /\ frame'[t].pc = "console"
                     /\ IF h \in handles
                        THEN /\ Len(files'[h.path]) = Len(files[h.path]) + 1
                             /\ \A p \in FileNames \ { h.path } :
                                    files'[p] = files[p]
                             /\ frame'[t].written =
                                    Append(frame[t].written,
                                           [ path |-> h.path,
                                             line |-> files'[h.path][Len(files'[h.path])] ])
                             /\ frame'[t].stderr = frame[t].stderr
                        ELSE /\ files' = files
                             /\ frame'[t].written = frame[t].written
                             /\ Len(frame'[t].stderr) = Len(frame[t].stderr) + 1 ]_vars
    /\ []( \A t \in Threads :
               HasReturned(t, LogOps) => Len(frame[t].console) = 1 )

\* a log call that held the handle of file a while SetDefaultFile replaced
\* it by the one of file b has failed its write, printed its console line
\* and returned
C23_Witness ==
    \E t, u \in Threads :
        /\ t # u
        /\ HasReturned(t, LogOps)
        /\ Len(frame[t].stderr) = 1
        /\ frame[t].stderr[1] \in { ErrWriteText, ErrWriteJSON }
        /\ frame[t].written = <<>>
        /\ Len(frame[t].console) = 1
        /\ HasReturned(u, { "SetDefaultFile" }) /\ frame[u].path = PathB
        /\ GetConfiguration.logFile \in handles
        /\ GetConfiguration.logFile.path = PathB
        /\ calls = 3

\* C24: in every state the format stored in the Configuration is TEXT or
\* JSON.
C24_StoredFormatIsTextOrJSON ==
    GetConfiguration.defaultFormat \in { FormatTXT, FormatJSON }

\* C25: a SetDefaultFile that has returned from a call with a path that is
\* not empty and has leading or trailing white space, a null byte or more
\* than 260 characters has returned an error and has not stored the path.
C25_SetDefaultFileRejectsInvalidPath ==
    \A t \in Threads :
        (HasReturned(t, { "SetDefaultFile" }) /\ BadPath(frame[t].path)) =>
            /\ frame[t].err # Nil
            /\ GetConfiguration.defaultFile # frame[t].path

\* C26: a log call that has returned while a path is configured and no
\* handle is stored has written to no file and has reported, once, the error
\* "log file configured but file handle is not available" on os.Stderr.
C26_MissingHandleIsReported ==
    \A t \in Threads :
        ( /\ HasReturned(t, LogOps)
          /\ GetConfiguration.defaultFile # <<>>
          /\ GetConfiguration.logFile = NoFile ) =>
            /\ frame[t].stderr =
                   << "log file configured but file handle is not available" >>
            /\ frame[t].written = <<>>
            /\ Len(frame[t].console) = 1

\* a log call made after a SetDefaultFile whose open failed has reported
\* the missing handle and printed its console line
C26_Witness ==
    \E t \in Threads :
        /\ HasReturned(t, LogOps)
        /\ frame[t].prev = [ NoCall EXCEPT !.op = "SetDefaultFile", !.err = ErrOpen ]
        /\ GetConfiguration.defaultFile = PathNoDir
        /\ GetConfiguration.logFile = NoFile
        /\ frame[t].stderr = << ErrNoHandle >>
        /\ Len(frame[t].console) = 1

\* C27: a log call that has returned while a path and a handle are
\* configured and the stored format is neither TEXT nor JSON has written to
\* no file, has reported the error "unsupported log format" once on
\* os.Stderr and has printed its console line.
C27_UnknownFormatIsReported ==
    \A t \in Threads :
        ( /\ HasReturned(t, LogOps)
          /\ GetConfiguration.defaultFile # <<>>
          /\ GetConfiguration.logFile # NoFile
          /\ GetConfiguration.defaultFormat \notin { 0, 1 } ) =>
            /\ frame[t].stderr = << "unsupported log format" >>
            /\ frame[t].written = <<>>
            /\ Len(frame[t].console) = 1
            /\ frame[t].err = Nil

\* a log call made with file a open and the format set to 99 has reported
\* the format, left the file empty and printed its console line
C27_Witness ==
    \E t \in Threads :
        /\ HasReturned(t, LogOps)
        /\ frame[t].prev.op = "SetDefaultFormat"
        /\ GetConfiguration.defaultFormat = 99
        /\ GetConfiguration.logFile \in handles
        /\ GetConfiguration.logFile.path = PathA
        /\ files[PathA] = <<>>
        /\ frame[t].stderr = << ErrUnsupported >>
        /\ Len(frame[t].console) = 1

\* C28: when Reset() has returned, the Configuration has no path and no
\* handle, the format TEXT and colors enabled, and no file handle is open.
C28_ResetRestoresDefaults ==
    \A t \in Threads :
        HasReturned(t, { "Reset" }) =>
            /\ GetConfiguration =
                   [ defaultFile |-> <<>>, logFile |-> NoFile,
                     defaultFormat |-> FormatTXT, enableColors |-> TRUE ]
            /\ handles = {}
            /\ frame[t].err = Nil

\* Reset() has returned after a log call wrote a line to file a: the file
\* was open before the Reset and its handle is closed and gone after it
C28_Witness ==
    \E t \in Threads :
        /\ HasReturned(t, { "Reset" })
        /\ frame[t].prev.op \in LogOps
        /\ files[PathA] # <<>>
        /\ handles = {}
        /\ configOnce
        /\ configInstance.logFile = NoFile
        /\ configInstance.defaultFile = <<>>

\* thread t takes a step of a log call
LogStep(t) == frame'[t] # frame[t] /\ frame'[t].op \in LogOps

\* the stored handle is closed: every write through it fails
Broken ==
    /\ GetConfiguration.defaultFile # <<>>
    /\ GetConfiguration.logFile # NoFile
    /\ GetConfiguration.logFile \notin handles

\* C29: no step of a log call changes the path, the handle, the format or
\* the color flag of the Configuration or opens or closes a file handle,
\* also when the write fails; while the stored handle is broken, getLogFile
\* gives a log call that broken handle, and the write through it leaves the
\* files as they are and reports the error.
C29_LogCallsLeaveTheConfiguration ==
    /\ [][ \A t \in Threads :
              LogStep(t) =>
                  /\ GetConfiguration' = GetConfiguration
                  /\ handles' = handles ]_vars
    /\ [][ \A t \in Threads :
              (LogStep(t) /\ frame[t].pc = "write_handle" /\ Broken) =>
                  /\ frame'[t].pc = "write_format"
                  /\ frame'[t].logFile = GetConfiguration.logFile ]_vars
    /\ [][ \A t \in Threads :
              ( /\ LogStep(t) /\ frame[t].pc = "write_line"
                /\ frame[t].logFile \notin handles ) =>
                  /\ files' = files
                  /\ frame'[t].written = <<>>
                  /\ frame'[t].stderr \in { << ErrWriteText >>, << ErrWriteJSON >> }
                  /\ Broken' = Broken ]_vars

\* two log calls in a row have failed their write, the second one by the
\* goroutine that made the first, after the handle was closed underneath;
\* the closed handle is still the one stored
C29_Witness ==
    \E t, u \in Threads :
        /\ t # u
        /\ HasReturned(u, { "CloseUnderneath" })
        /\ HasReturned(t, LogOps) /\ frame[t].prev.op \in LogOps
        /\ frame[t].logs = 2 /\ calls = 3
        /\ frame[t].stderr = << ErrWriteText >>
        /\ files = [ p \in FileNames |-> <<>> ]
        /\ Broken
        /\ GetConfiguration.logFile = [ id |-> 1, path |-> PathA ]

\* C30: no step of an Init changes the module of a Logger other than the
\* one it is called on, the Configuration, the open handles or the files;
\* and the message a log call creates has the module of the Logger the call
\* is made on.
C30_InitChangesOnlyItsLogger ==
    /\ [][ \A t \in Threads :
              (frame'[t] # frame[t] /\ frame'[t].op \in InitOps) =>
                  /\ \A k \in Loggers \ { frame'[t].l } : module'[k] = module[k]
                  /\ GetConfiguration' = GetConfiguration
                  /\ configOnce' = configOnce
                  /\ handles' = handles
                  /\ files' = files ]_vars
    /\ [][ \A t \in Threads :
              ( /\ frame'[t].op \in LogOps
                /\ frame'[t].msg # frame[t].msg /\ frame'[t].msg # NoMsg ) =>
                  /\ frame'[t].msg.Module = module[frame'[t].l]
                  /\ frame'[t].op = "log" <=> frame'[t].l = DefaultLogger ]_vars

\* the default logger and the instance logger have been initialised with
\* different names, and a log call of the package carries the module of the
\* default logger
C30_Witness ==
    \E t \in Threads :
        /\ module[DefaultLogger] = << "m" >>
        /\ module["logger1"] = << "n" >>
        /\ HasReturned(t, { "log" })
        /\ frame[t].msg.Module = << "m" >>
        /\ IsInfix(<< "m" >>, frame[t].console[1])

\* the color code the claim maps a severity to
ExpectedColor(sev) ==
    CASE sev = << "O", "K" >> -> "\\033[48;5;36m"
      [] sev = << "W", "A", "R", "N" >> -> "\\033[48;5;3m"
      [] sev = << "E", "R", "R", "O", "R" >> -> "\\033[48;5;1m"
      [] sev = << "F", "A", "T", "A", "L" >> -> "\\033[48;5;1m"
      [] sev = << "D", "E", "B", "U", "G" >> -> "\\033[48;5;5m"
      [] OTHER -> "\\033[48;5;33m"

ColorCodes ==
    { COLOR_RESET, COLOR_INFO, COLOR_OK, COLOR_WARN, COLOR_ERROR, COLOR_FATAL,
      COLOR_DEBUG }

\* C31: the console line of a log call that has returned, on either Logger:
\* with the colors disabled it is the module padded to 20 columns, the
\* severity padded to 6 and the text, with no color code in it; with the
\* colors enabled the module and severity stand between the color of the
\* severity and the reset code, and a severity that is none of the six has
\* the color of INFO.
C31_ColorFlagDecidesTheConsoleLine ==
    \A t \in Threads :
        HasReturned(t, LogOps) =>
            LET m == module[frame[t].l]
                sev == frame[t].sev
                header == m \o Rep(SP, 20 - Len(m)) \o << SP >>
                            \o sev \o Rep(SP, 6 - Len(sev))
                text == Stringified(frame[t].args)
            IN IF GetConfiguration.enableColors
               THEN frame[t].console =
                        << << "\\033[0m", SP, ExpectedColor(sev), SP >> \o header
                           \o << SP, "\\033[0m", SP >> \o text >>
               ELSE /\ frame[t].console = << header \o << SP >> \o text >>
                    /\ \A k \in 1..Len(frame[t].console[1]) :
                           frame[t].console[1][k] \notin ColorCodes

\* a log call with a severity that is none of the six has returned with the
\* colors enabled
C31_Witness ==
    \E t \in Threads :
        /\ HasReturned(t, { "Logger.log" })
        /\ frame[t].sev = TRACE
        /\ GetConfiguration.enableColors
        /\ module[frame[t].l] = << "n" >>
        /\ frame[t].console[1][3] = COLOR_INFO

\* every goroutine has made at most one call, a SetLogFile that returned
\* success, and at least one has
OnlySetLogFileCalls ==
    /\ \A t \in Threads :
           \/ frame[t].pc = "idle"
           \/ HasReturned(t, { "SetLogFile" }) /\ frame[t].err = Nil
    /\ calls = Cardinality({ t \in Threads : frame[t].pc = "ret" })
    /\ calls >= 1

C33_LinesAreInTheInstalledFormat ==
    \A t, u \in Threads :
        ( /\ t # u /\ calls = 2
          /\ frame[t].op = "SetLogFile" /\ frame[t].path # <<>>
          /\ frame[t].pc \in { "SetLogFile_format", "ret" }
          /\ frame[t].err = Nil
          /\ frame[u].op \in LogOps ) =>
            \A i \in 1..Len(files[frame[t].path]) :
                files[frame[t].path][i] =
                    ExpectedLine(frame[t].format, frame[u].sev,
                                 frame[u].msg.Module,
                                 Stringified(frame[u].args))

\* C34: Close() returns an error only when closing the stored handle
\* failed, and then, as when the close succeeds, the step leaves no handle
\* and no path stored and the handle closed; a Close() that finds no handle
\* stored returns success.
C34_CloseClearsAlsoWhenTheCloseFails ==
    [][ \A t \in Threads :
          (frame[t].pc = "Close_body" /\ frame'[t].pc = "ret") =>
              LET h == configInstance.logFile
              IN /\ configInstance'.logFile = NoFile
                 /\ h # NoFile =>
                        /\ configInstance'.defaultFile = <<>>
                        /\ h \notin handles'
                 /\ frame'[t].err # Nil <=> (h # NoFile /\ h \notin handles)
                 /\ h = NoFile => configInstance' = configInstance ]_vars

\* Close() has returned success directly after a Close() that returned the
\* error of the failed close
C34_Witness ==
    \E t \in Threads :
        /\ HasReturned(t, { "Close" }) /\ frame[t].err = Nil
        /\ frame[t].prev = [ NoCall EXCEPT !.op = "Close", !.err = ErrCloseFailed ]
        /\ GetConfiguration.logFile = NoFile
        /\ GetConfiguration.defaultFile = <<>>
        /\ handles = {}

\* C35: the steps of a SetLogFile call before the one that follows a
\* successful SetDefaultFile leave the stored format and the color flag as
\* they are, and the call returns the error of the failed open from the step
\* that opens the file only: a SetLogFile call that fails on the open
\* changes neither the format nor the color flag.
C35_FailedOpenKeepsFormatAndColors ==
    [][ \A t \in Threads :
          (frame'[t] # frame[t] /\ frame'[t].op = "SetLogFile") =>
              /\ frame[t].pc # "SetLogFile_format" =>
                     /\ GetConfiguration'.defaultFormat =
                            GetConfiguration.defaultFormat
                     /\ GetConfiguration'.enableColors =
                            GetConfiguration.enableColors
              /\ frame'[t].err = ErrSetLogFile =>
                     /\ frame[t].pc = "SetDefaultFile_open"
                     /\ frame'[t].pc = "ret"
                     /\ GetConfiguration'.logFile = NoFile ]_vars

\* SetLogFile (TEXT) has failed on the open after SetDefaultFormat(JSON),
\* and the stored format is JSON
C35_Witness ==
    \E t \in Threads :
        /\ HasReturned(t, { "SetLogFile" }) /\ frame[t].err = ErrSetLogFile
        /\ frame[t].format = FormatTXT
        /\ frame[t].prev = [ NoCall EXCEPT !.op = "SetDefaultFormat",
                                           !.format = FormatJSON ]
        /\ GetConfiguration.defaultFormat = FormatJSON
        /\ GetConfiguration.enableColors

\* C36: a goroutine inside one of the package level functions Info, OK,
\* Warn, Error, Debug, Fatal does not hold defaultMu, the lock of the
\* package Init.
C36_LevelFunctionsDoNotTakeTheInitLock ==
    \A t \in Threads :
        (frame[t].op = "log" /\ frame[t].global /\ InCall(t)) =>
            defaultMu # t

====
